---- MODULE Spec2Model ----
(***************************************************************************)
(* Model of scripts/multi_thread_queries.py: the concurrent query harness. *)
(* main() tests the connection, run_concurrent_tests() starts one thread   *)
(* per batch, joins them, reads the shared counters and main() turns the   *)
(* error counter into the process exit code.                               *)
(*                                                                         *)
(* The database driver (mysql.connector) and the SQL engine are external:  *)
(* every driver call is a step whose outcome the environment chooses.      *)
(* Humidity, temperature and precipitation are floats in the program; the  *)
(* model uses whole percent / degrees / millimetres and draws the random   *)
(* parameters from the end points and interior of the program's ranges.    *)
(***************************************************************************)
EXTENDS Integers, Sequences, FiniteSets, TLC

VARIABLES
    plan,        \* thread -> num_queries handed to its batch
    dbFaulty,    \* environment: TRUE when driver calls may raise mysql.connector.Error
    rowsTracked, \* TRUE when the contents of ClimateData are part of the state
    mainPc,      \* position of the main thread
    started,     \* number of threads of `threads` already started
    joined,      \* number of threads of `threads` already joined
    report,      \* the values the summary logged
    success,     \* main()'s return value
    exitCode,    \* process exit code, NoExit while running
    pc,          \* thread -> position of the worker
    i,           \* thread -> loop index of the batch
    tmp,         \* thread -> value read by `+= 1` before it is written back
    failed,      \* thread -> the batch is in its except handler or past it
    conn,        \* thread -> "none" | "open" | "closed"
    cursor,      \* thread -> "none" | "open" | "closed"
    lock,        \* holder of self.lock, or Free
    results,     \* self.results
    own,         \* thread -> counter -> increments this worker performed
    failedAt,    \* thread -> loop index at which the driver raised, or NoIter
    committed,   \* thread -> statements whose commit returned
    commitFailed,\* thread -> connection.commit() raised in this batch
    connOk,      \* number of successful get_connection() calls
    table,       \* ClimateData: sequence of committed rows
    pending,     \* thread -> row inserted but not yet committed (sequence of 0 or 1 rows)
    touched,     \* the rows the UPDATE statement being committed changed: [type, before, after]
    demoPc,      \* signoz.py: position of simulate_climate_data_operations
    opIndex,     \* signoz.py: index in `operations` of the statement in hand
    attempted,   \* signoz.py: the statements whose try block was entered, in order
    executed,    \* signoz.py: the statements handed to cursor.execute, in order
    raised,      \* signoz.py: the statements during which the driver raised Error
    opLog        \* signoz.py: the log_database_operation records, in order

vars == <<plan, dbFaulty, rowsTracked, mainPc, started, joined, report, success,
          exitCode, pc, i, tmp, failed, conn, cursor, lock, results, own, failedAt,
          committed, commitFailed, connOk, table, pending, touched,
          demoPc, opIndex, attempted, executed, raised, opLog>>

mainVars == <<mainPc, started, joined, report, success, exitCode>>
dataVars == <<table, pending, touched>>
envVars == <<plan, dbFaulty, rowsTracked>>
demoVars == <<demoPc, opIndex, attempted, executed, raised, opLog>>
harnessVars == <<mainVars, pc, i, tmp, failed, conn, cursor, lock, results, own,
                 failedAt, committed, commitFailed, connOk, dataVars, envVars>>

----------------------------------------------------------------------------
(* Bounds of the model *)

\* num_queries of every batch in the bounded specifications
MaxN == 2
\* rows already in ClimateData when the harness starts
MaxSeedRows == 1

----------------------------------------------------------------------------
(* run_concurrent_tests: the threads and their batch sizes *)

InsertThread == "INSERT-Thread"
SelectThread1 == "SELECT-Thread-1"
SelectThread2 == "SELECT-Thread-2"
UpdateThread == "UPDATE-Thread"

\* the list `threads`, in the order it is built, started and joined
threads == <<InsertThread, SelectThread1, SelectThread2, UpdateThread>>

Threads == {threads[k] : k \in 1..Len(threads)}

\* the target of each thread
Target(t) ==
    IF t = InsertThread THEN "insert"
    ELSE IF t = UpdateThread THEN "update"
    ELSE "select"

InsertArgs == 10
Select1Args == 8
Select2Args == 7
UpdateArgs == 8

\* args=(n,) of each thread
DefaultPlan ==
    [t \in Threads |->
        IF t = InsertThread THEN InsertArgs
        ELSE IF t = SelectThread1 THEN Select1Args
        ELSE IF t = SelectThread2 THEN Select2Args
        ELSE UpdateArgs]

\* the bounded plan: the same four threads with short batches
SmallPlan == [t \in Threads |-> IF t = SelectThread2 THEN MaxN - 1 ELSE MaxN]

\* the bounded plan of the runs that track the rows of ClimateData
DataPlan == [t \in Threads |-> IF t = UpdateThread THEN MaxN ELSE 1]

----------------------------------------------------------------------------
(* self.results and self.lock *)

Counters == {"inserts", "selects", "updates", "errors"}

\* self.results as __init__ builds it
InitResults == [c \in Counters |-> 0]

Free == "free"
NoExit == -1
NoIter == -1

\* the counter a batch raises after a successful iteration
SuccessCounter(t) ==
    IF Target(t) = "insert" THEN "inserts"
    ELSE IF Target(t) = "update" THEN "updates"
    ELSE "selects"

\* the counter the `with self.lock:` block the worker is in raises
Counter(t) == IF failed[t] THEN "errors" ELSE SuccessCounter(t)

\* a lock that lets every thread in: the `with self.lock:` left out
LockIgnored == TRUE

\* `with self.lock:` enters only when no thread holds the lock
LockAvailable == lock = Free

\* the lock still held by t after the increment: the increment placed in a
\* `with self.lock:` block that encloses the whole loop body
StillLocked(t) == t

\* leaving `with self.lock:` releases the lock
Unlocked(t) == Free

\* the increment mistyped as `self.results[c] = +1`
IncrementTypo(v) == 1

\* the right-hand side of `self.results[c] += 1`
Incremented(v) == v + 1

\* sum([inserts, selects, updates]) of the summary
Total(r) == r["inserts"] + r["selects"] + r["updates"]

\* the exit code with the status ignored
ExitCodeAlwaysZero(s) == 0

\* exit(0 if success else 1)
ExitCode(s) == IF s THEN 0 ELSE 1

\* main() without the early return on a failed connection test
AfterTestIgnored(outcome) == "start"

\* main(): `if not test_conn: return False`, otherwise the run goes on
AfterTest(outcome) == IF outcome = "ok" THEN "start" ELSE "return"

\* the loop running one iteration too many
LoopPcOffByOne(t, k) == IF k <= plan[t] THEN "execute" ELSE "finally"

\* `for i in range(num_queries)`: the next position with loop index k
LoopPc(t, k) == IF k < plan[t] THEN "execute" ELSE "finally"

\* the batch going on without a connection: `if not connection: return` left out
AfterConnectNoReturn(outcome) == "cursor"

\* `if not connection: return`
AfterConnect(outcome) == IF outcome = "ok" THEN "cursor" ELSE "done"

\* what a driver call may do: return, or raise mysql.connector.Error
Outcomes == IF dbFaulty THEN {"ok", "error"} ELSE {"ok"}

----------------------------------------------------------------------------
(* ClimateData and the statements *)

HumidityMin == 20
HumidityMax == 95

\* locations: the INSERT draws from five cities, the UPDATE by location from
\* three others; "Edmonton" and "Toronto" stand for the two disjoint lists

\* the rows one INSERT may add: location = random.choice(locations),
\* temperature = round(random.uniform(-20.0, 35.0), 1),
\* precipitation = round(random.uniform(0.0, 50.0), 1),
\* humidity = round(random.uniform(30.0, 90.0), 1); the end points are drawn
InsertRows ==
    IF rowsTracked
    THEN {[location |-> "Edmonton", temperature |-> w[1], precipitation |-> w[2],
           humidity |-> w[3]] : w \in {<<-20, 0, 30>>, <<35, 50, 90>>}}
    ELSE {[location |-> "Edmonton", temperature |-> 35, precipitation |-> 50,
           humidity |-> 90]}

\* rows the table may hold before the run: the table is not the harness's, and
\* the UPDATE by location only ever matches rows the harness did not insert
SeedRows ==
    [location : {"Toronto"}, temperature : {30}, precipitation : {50},
     humidity : {10, 93}]

\* the UPDATE statements one iteration may issue, with their bound parameters:
\* random.uniform(-5.0, 5.0) by location; random.uniform(2.0, 8.0) above
\* min_temp = random.uniform(15.0, 25.0); random.uniform(3.0, 10.0) above
\* min_precip = random.uniform(20.0, 40.0); the end points are drawn
UpdateChoices ==
    IF rowsTracked
    THEN [type : {"location_based"}, location : {"Toronto"}, threshold : {0},
          delta : {-5, 5}]
         \cup [type : {"temperature_based"}, location : {""}, threshold : {25},
               delta : {2, 8}]
         \cup [type : {"precipitation_based"}, location : {""}, threshold : {40},
               delta : {3, 10}]
    ELSE {[type |-> "location_based", location |-> "Toronto", threshold |-> 0,
           delta |-> 5]}

\* the WHERE clause with the lower bound of BETWEEN left out
MatchesNoLowerBound(u, r) ==
    IF u.type = "location_based"
    THEN r.location = u.location /\ r.humidity + u.delta <= HumidityMax
    ELSE IF u.type = "temperature_based"
    THEN r.temperature > u.threshold /\ r.humidity + u.delta <= HumidityMax
    ELSE r.precipitation > u.threshold /\ r.humidity + u.delta <= HumidityMax

\* the WHERE clause of the UPDATE u, on row r
Matches(u, r) ==
    IF u.type = "location_based"
    THEN /\ r.location = u.location
         /\ r.humidity + u.delta >= HumidityMin
         /\ r.humidity + u.delta <= HumidityMax
    ELSE IF u.type = "temperature_based"
    THEN r.temperature > u.threshold /\ r.humidity + u.delta <= HumidityMax
    ELSE r.precipitation > u.threshold /\ r.humidity + u.delta <= HumidityMax

\* SET humidity = humidity + %s on the rows the WHERE clause selects
ApplyUpdate(u, tbl) ==
    [k \in 1..Len(tbl) |->
        IF Matches(u, tbl[k])
        THEN [tbl[k] EXCEPT !.humidity = tbl[k].humidity + u.delta]
        ELSE tbl[k]]

\* the rows the UPDATE u changes in tbl, before and after
Touched(u, tbl) ==
    {[type |-> u.type, before |-> tbl[k].humidity,
      after |-> ApplyUpdate(u, tbl)[k].humidity] :
        k \in {j \in 1..Len(tbl) : Matches(u, tbl[j])}}

----------------------------------------------------------------------------
(* Initial states *)

InitCommon ==
    /\ mainPc = "test_conn"
    /\ started = 0
    /\ joined = 0
    /\ report = [c \in Counters \cup {"total"} |-> 0]
    /\ success = FALSE
    /\ exitCode = NoExit
    /\ pc = [t \in Threads |-> "new"]
    /\ i = [t \in Threads |-> 0]
    /\ tmp = [t \in Threads |-> 0]
    /\ failed = [t \in Threads |-> FALSE]
    /\ conn = [t \in Threads |-> "none"]
    /\ cursor = [t \in Threads |-> "none"]
    /\ lock = Free
    /\ results = InitResults
    /\ own = [t \in Threads |-> InitResults]
    /\ failedAt = [t \in Threads |-> NoIter]
    /\ committed = [t \in Threads |-> 0]
    /\ commitFailed = [t \in Threads |-> FALSE]
    /\ connOk = 0
    /\ pending = [t \in Threads |-> <<>>]
    /\ touched = {}

\* simulate_climate_data_operations not running
DemoIdle ==
    /\ demoPc = "idle"
    /\ opIndex = 0
    /\ attempted = <<>>
    /\ executed = <<>>
    /\ raised = {}
    /\ opLog = <<>>

\* short batches against a database whose driver calls may fail
Init ==
    /\ InitCommon
    /\ DemoIdle
    /\ plan = SmallPlan
    /\ dbFaulty = TRUE
    /\ rowsTracked = FALSE
    /\ table = <<>>

\* the load plan of run_concurrent_tests against a healthy database
InitDefault ==
    /\ InitCommon
    /\ DemoIdle
    /\ plan = DefaultPlan
    /\ dbFaulty = FALSE
    /\ rowsTracked = FALSE
    /\ table = <<>>

\* short batches against a healthy database, the rows of ClimateData tracked
InitData ==
    /\ InitCommon
    /\ DemoIdle
    /\ plan = DataPlan
    /\ dbFaulty = FALSE
    /\ rowsTracked = TRUE
    /\ table \in UNION {[1..n -> SeedRows] : n \in 0..MaxSeedRows}

----------------------------------------------------------------------------
(* main() and run_concurrent_tests() *)

\* test_conn = db_conn.get_connection(); test_conn.close()
TestConnection ==
    /\ mainPc = "test_conn"
    /\ \E outcome \in Outcomes :
        /\ mainPc' = AfterTest(outcome)
        /\ connOk' = IF outcome = "ok" THEN connOk + 1 ELSE connOk
    /\ success' = FALSE
    /\ UNCHANGED <<started, joined, report, exitCode>>
    /\ UNCHANGED <<pc, i, tmp, failed, conn, cursor, lock, results, own, failedAt, committed, commitFailed>>
    /\ UNCHANGED <<dataVars, envVars, demoVars>>

\* for thread in threads: thread.start()
StartThread ==
    /\ mainPc = "start"
    /\ started < Len(threads)
    /\ pc' = [pc EXCEPT ![threads[started + 1]] = "connect"]
    /\ started' = started + 1
    /\ mainPc' = IF started + 1 = Len(threads) THEN "join" ELSE "start"
    /\ UNCHANGED <<joined, report, success, exitCode>>
    /\ UNCHANGED <<i, tmp, failed, conn, cursor, lock, results, own, failedAt, committed, commitFailed, connOk>>
    /\ UNCHANGED <<dataVars, envVars, demoVars>>

\* a thread has ended: its target returned, or raised and the thread died
Ended(t) == pc[t] \in {"done", "dead"}

\* the join loop stopping one thread short
JoinAllButLast == Len(threads) - 1

\* the threads run_concurrent_tests waits for before it reads the counters
JoinCount == Len(threads)

\* for thread in threads: thread.join()
JoinThread ==
    /\ mainPc = "join"
    /\ joined < JoinCount
    /\ Ended(threads[joined + 1])
    /\ joined' = joined + 1
    /\ mainPc' = IF joined + 1 = JoinCount THEN "summary" ELSE "join"
    /\ UNCHANGED <<started, report, success, exitCode>>
    /\ UNCHANGED <<pc, i, tmp, failed, conn, cursor, lock, results, own, failedAt, committed, commitFailed, connOk>>
    /\ UNCHANGED <<dataVars, envVars, demoVars>>

\* the logger.info lines of the summary, and `return self.results`
Summary ==
    /\ mainPc = "summary"
    /\ report' = [c \in Counters \cup {"total"} |->
                    IF c = "total" THEN Total(results) ELSE results[c]]
    /\ mainPc' = "check"
    /\ UNCHANGED <<started, joined, success, exitCode>>
    /\ UNCHANGED <<pc, i, tmp, failed, conn, cursor, lock, results, own, failedAt, committed, commitFailed, connOk>>
    /\ UNCHANGED <<dataVars, envVars, demoVars>>

\* return results['errors'] == 0
ReturnStatus ==
    /\ mainPc = "check"
    /\ success' = (results["errors"] = 0)
    /\ mainPc' = "return"
    /\ UNCHANGED <<started, joined, report, exitCode>>
    /\ UNCHANGED <<pc, i, tmp, failed, conn, cursor, lock, results, own, failedAt, committed, commitFailed, connOk>>
    /\ UNCHANGED <<dataVars, envVars, demoVars>>

\* success = main(); exit(0 if success else 1)
Exit ==
    /\ mainPc = "return"
    /\ exitCode' = ExitCode(success)
    /\ mainPc' = "exited"
    /\ UNCHANGED <<started, joined, report, success>>
    /\ UNCHANGED <<pc, i, tmp, failed, conn, cursor, lock, results, own, failedAt, committed, commitFailed, connOk>>
    /\ UNCHANGED <<dataVars, envVars, demoVars>>

----------------------------------------------------------------------------
(* The batches: execute_insert_queries, execute_select_queries,            *)
(* execute_update_queries                                                  *)

\* connection = self.db_connection.get_connection(); if not connection: return
GetConnection(t) ==
    /\ pc[t] = "connect"
    /\ \E outcome \in Outcomes :
        /\ pc' = [pc EXCEPT ![t] = AfterConnect(outcome)]
        /\ conn' = [conn EXCEPT ![t] = IF outcome = "ok" THEN "open" ELSE "none"]
        /\ connOk' = IF outcome = "ok" THEN connOk + 1 ELSE connOk
    /\ UNCHANGED <<i, tmp, failed, cursor, lock, results, own, failedAt, committed, commitFailed>>
    /\ UNCHANGED <<mainVars, dataVars, envVars, demoVars>>

\* cursor = connection.cursor(), before the try: an error leaves the thread
CreateCursor(t) ==
    /\ pc[t] = "cursor"
    /\ \E outcome \in Outcomes :
        /\ pc' = [pc EXCEPT ![t] = IF outcome = "ok" THEN LoopPc(t, 0) ELSE "dead"]
        /\ cursor' = [cursor EXCEPT ![t] = IF outcome = "ok" THEN "open" ELSE "none"]
    /\ UNCHANGED <<i, tmp, failed, conn, lock, results, own, failedAt, committed, commitFailed, connOk>>
    /\ UNCHANGED <<mainVars, dataVars, envVars, demoVars>>

\* the error caught inside the loop: the batch goes on with the same iteration
RaiseAndContinue(t) ==
    /\ pc' = [pc EXCEPT ![t] = "execute"]
    /\ failed' = failed
    /\ failedAt' = [failedAt EXCEPT ![t] = i[t]]

\* except mysql.connector.Error: the batch leaves the loop for its handler
Raise(t) ==
    /\ pc' = [pc EXCEPT ![t] = "acquire"]
    /\ failed' = [failed EXCEPT ![t] = TRUE]
    /\ failedAt' = [failedAt EXCEPT ![t] = i[t]]

\* the statement returned: on to the next call of the iteration
Proceed(t, next) ==
    /\ pc' = [pc EXCEPT ![t] = next]
    /\ UNCHANGED <<failed, failedAt>>

\* the counter raised right after execute, the commit left for later
CountBeforeCommit == "acquire"

\* after cursor.execute of an INSERT or UPDATE comes connection.commit()
AfterExecute == "commit"

\* cursor.execute(INSERT ...) with random values
ExecuteInsert(t) ==
    /\ pc[t] = "execute"
    /\ Target(t) = "insert"
    /\ \E outcome \in Outcomes, row \in InsertRows :
        IF outcome = "ok"
        THEN /\ Proceed(t, AfterExecute)
             /\ pending' = IF rowsTracked THEN [pending EXCEPT ![t] = <<row>>] ELSE pending
        ELSE /\ Raise(t)
             /\ pending' = pending
    /\ UNCHANGED <<i, tmp, conn, cursor, lock, results, own, committed, commitFailed, connOk, table, touched>>
    /\ UNCHANGED <<mainVars, envVars, demoVars>>

\* cursor.execute(UPDATE ...) of a random shape
ExecuteUpdate(t) ==
    /\ pc[t] = "execute"
    /\ Target(t) = "update"
    /\ \E outcome \in Outcomes, u \in UpdateChoices :
        IF outcome = "ok"
        THEN /\ Proceed(t, AfterExecute)
             /\ table' = IF rowsTracked THEN ApplyUpdate(u, table) ELSE table
             /\ touched' = IF rowsTracked THEN Touched(u, table) ELSE touched
        ELSE /\ Raise(t)
             /\ UNCHANGED <<table, touched>>
    /\ UNCHANGED <<i, tmp, conn, cursor, lock, results, own, committed, commitFailed, connOk, pending>>
    /\ UNCHANGED <<mainVars, envVars, demoVars>>

\* cursor.execute(SELECT ...) of a random shape
ExecuteSelect(t) ==
    /\ pc[t] = "execute"
    /\ Target(t) = "select"
    /\ \E outcome \in Outcomes :
        IF outcome = "ok" THEN Proceed(t, "fetch") ELSE Raise(t)
    /\ UNCHANGED <<i, tmp, conn, cursor, lock, results, own, committed, commitFailed, connOk>>
    /\ UNCHANGED <<mainVars, dataVars, envVars, demoVars>>

\* connection.commit()
Commit(t) ==
    /\ pc[t] = "commit"
    /\ \E outcome \in Outcomes :
        IF outcome = "ok"
        THEN /\ Proceed(t, "acquire")
             /\ committed' = [committed EXCEPT ![t] = @ + 1]
             /\ table' = table \o pending[t]
             /\ commitFailed' = commitFailed
        ELSE /\ Raise(t)
             /\ commitFailed' = [commitFailed EXCEPT ![t] = TRUE]
             /\ UNCHANGED <<committed, table>>
    /\ pending' = [pending EXCEPT ![t] = <<>>]
    /\ touched' = IF Target(t) = "update" THEN {} ELSE touched
    /\ UNCHANGED <<i, tmp, conn, cursor, lock, results, own, connOk>>
    /\ UNCHANGED <<mainVars, envVars, demoVars>>

\* results = cursor.fetchall()
Fetch(t) ==
    /\ pc[t] = "fetch"
    /\ \E outcome \in Outcomes :
        IF outcome = "ok" THEN Proceed(t, "acquire") ELSE Raise(t)
    /\ UNCHANGED <<i, tmp, conn, cursor, lock, results, own, committed, commitFailed, connOk>>
    /\ UNCHANGED <<mainVars, dataVars, envVars, demoVars>>

\* with self.lock: (entering)
Acquire(t) ==
    /\ pc[t] = "acquire"
    /\ LockAvailable
    /\ lock' = t
    /\ pc' = [pc EXCEPT ![t] = "read"]
    /\ UNCHANGED <<i, tmp, failed, conn, cursor, results, own, failedAt, committed, commitFailed, connOk>>
    /\ UNCHANGED <<mainVars, dataVars, envVars, demoVars>>

\* self.results[c] += 1: the load of the old value
Read(t) ==
    /\ pc[t] = "read"
    /\ tmp' = [tmp EXCEPT ![t] = results[Counter(t)]]
    /\ pc' = [pc EXCEPT ![t] = "write"]
    /\ UNCHANGED <<i, failed, conn, cursor, lock, results, own, failedAt, committed, commitFailed, connOk>>
    /\ UNCHANGED <<mainVars, dataVars, envVars, demoVars>>

\* self.results[c] += 1: the store, then the lock is released; after a success
\* the batch sleeps and goes to its next iteration, after an error to finally
Write(t) ==
    /\ pc[t] = "write"
    /\ results' = [results EXCEPT ![Counter(t)] = Incremented(tmp[t])]
    /\ own' = [own EXCEPT ![t][Counter(t)] = @ + 1]
    /\ tmp' = [tmp EXCEPT ![t] = 0]
    /\ lock' = Unlocked(t)
    /\ IF failed[t]
       THEN /\ pc' = [pc EXCEPT ![t] = "finally"]
            /\ i' = i
       ELSE /\ pc' = [pc EXCEPT ![t] = LoopPc(t, i[t] + 1)]
            /\ i' = [i EXCEPT ![t] = @ + 1]
    /\ UNCHANGED <<failed, conn, cursor, failedAt, committed, commitFailed, connOk>>
    /\ UNCHANGED <<mainVars, dataVars, envVars, demoVars>>

\* finally: cursor.close(); connection.close(). An error raised by
\* cursor.close() leaves the thread before connection.close() runs
Finally(t) ==
    /\ pc[t] = "finally"
    /\ \E outcome \in Outcomes :
        IF outcome = "ok"
        THEN /\ cursor' = [cursor EXCEPT ![t] = "closed"]
             /\ conn' = [conn EXCEPT ![t] = "closed"]
             /\ pc' = [pc EXCEPT ![t] = "done"]
        ELSE /\ UNCHANGED <<conn, cursor>>
             /\ pc' = [pc EXCEPT ![t] = "dead"]
    /\ UNCHANGED <<i, tmp, failed, lock, results, own, failedAt, committed, commitFailed, connOk>>
    /\ UNCHANGED <<mainVars, dataVars, envVars, demoVars>>

----------------------------------------------------------------------------
Next ==
    \/ TestConnection
    \/ StartThread
    \/ JoinThread
    \/ Summary
    \/ ReturnStatus
    \/ Exit
    \/ \E t \in Threads : GetConnection(t)
    \/ \E t \in Threads : CreateCursor(t)
    \/ \E t \in Threads : ExecuteInsert(t)
    \/ \E t \in Threads : ExecuteUpdate(t)
    \/ \E t \in Threads : ExecuteSelect(t)
    \/ \E t \in Threads : Commit(t)
    \/ \E t \in Threads : Fetch(t)
    \/ \E t \in Threads : Acquire(t)
    \/ \E t \in Threads : Read(t)
    \/ \E t \in Threads : Write(t)
    \/ \E t \in Threads : Finally(t)

Spec == Init /\ [][Next]_vars

SpecDefault == InitDefault /\ [][Next]_vars

SpecData == InitData /\ [][Next]_vars

\* the steps of the main thread
MainNext ==
    \/ TestConnection
    \/ StartThread
    \/ JoinThread
    \/ Summary
    \/ ReturnStatus
    \/ Exit

\* the steps of the worker thread t
Worker(t) ==
    \/ GetConnection(t)
    \/ CreateCursor(t)
    \/ ExecuteInsert(t)
    \/ ExecuteUpdate(t)
    \/ ExecuteSelect(t)
    \/ Commit(t)
    \/ Fetch(t)
    \/ Acquire(t)
    \/ Read(t)
    \/ Write(t)
    \/ Finally(t)

\* fair scheduling: a thread that can take a step is not passed over forever,
\* and every driver call returns (each call is one step)
Fairness ==
    /\ WF_vars(MainNext)
    /\ \A t \in Threads : WF_vars(Worker(t))

\* the bounded plan of the fairly scheduled runs
FairPlan == [t \in Threads |-> IF t = InsertThread THEN MaxN ELSE 1]

\* short batches against a database whose driver calls may fail
InitFair ==
    /\ InitCommon
    /\ DemoIdle
    /\ plan = FairPlan
    /\ dbFaulty = TRUE
    /\ rowsTracked = FALSE
    /\ table = <<>>

\* short batches, driver calls may fail, the threads fairly scheduled
FairSpec == InitFair /\ [][Next]_vars /\ Fairness

----------------------------------------------------------------------------
(* signoz.py: SignOzLogger.simulate_climate_data_operations *)

\* the list `operations`: (op_type, query), the queries named by what they do
Operations ==
    << [type |-> "SELECT", stmt |-> "count"],
       [type |-> "SELECT", stmt |-> "filtered_select"],
       [type |-> "SELECT", stmt |-> "grouped_aggregate"],
       [type |-> "INSERT", stmt |-> "insert"],
       [type |-> "UPDATE", stmt |-> "update"],
       [type |-> "DELETE", stmt |-> "delete"] >>

\* the loop left at the first error: a `break` in the except block
AbortOnError(k) == Len(Operations) + 1

\* except Error: the failure is logged and the for loop goes to its next entry
NextOnError(k) == k + 1

\* the for loop taking entry k, or ending after the last one
DemoGoto(k) ==
    /\ opIndex' = k
    /\ demoPc' = IF k > Len(Operations) THEN "done" ELSE "connect"

\* log_database_operation(op_type, query, ..., error=e) in the except block
DemoFail ==
    /\ opLog' = Append(opLog, [stmt |-> Operations[opIndex].stmt,
                               type |-> Operations[opIndex].type,
                               status |-> "failed"])
    /\ raised' = raised \cup {Operations[opIndex].stmt}
    /\ DemoGoto(NextOnError(opIndex))

\* the try block is entered: connection = mysql.connector.connect(...);
\* cursor = connection.cursor()
DemoConnect ==
    /\ demoPc = "connect"
    /\ attempted' = Append(attempted, Operations[opIndex].stmt)
    /\ \E outcome \in Outcomes :
        IF outcome = "ok"
        THEN /\ demoPc' = "execute"
             /\ UNCHANGED <<opIndex, raised, opLog>>
        ELSE DemoFail
    /\ UNCHANGED <<executed, harnessVars>>

\* cursor.execute(query)
DemoExecute ==
    /\ demoPc = "execute"
    /\ executed' = Append(executed, Operations[opIndex].stmt)
    /\ \E outcome \in Outcomes :
        IF outcome = "ok"
        THEN /\ demoPc' = "finish"
             /\ UNCHANGED <<opIndex, raised, opLog>>
        ELSE DemoFail
    /\ UNCHANGED <<attempted, harnessVars>>

\* connection.commit() for INSERT, UPDATE and DELETE, cursor.fetchall() for a
\* SELECT; then the span attributes and log_database_operation(op_type, query, ...)
DemoFinish ==
    /\ demoPc = "finish"
    /\ \E outcome \in Outcomes :
        IF outcome = "ok"
        THEN /\ opLog' = Append(opLog, [stmt |-> Operations[opIndex].stmt,
                                        type |-> Operations[opIndex].type,
                                        status |-> "successful"])
             /\ demoPc' = "close"
             /\ UNCHANGED <<opIndex, raised>>
        ELSE DemoFail
    /\ UNCHANGED <<attempted, executed, harnessVars>>

\* cursor.close(); connection.close(); time.sleep(...): still inside the try
DemoClose ==
    /\ demoPc = "close"
    /\ \E outcome \in Outcomes :
        IF outcome = "ok"
        THEN /\ DemoGoto(opIndex + 1)
             /\ UNCHANGED <<raised, opLog>>
        ELSE DemoFail
    /\ UNCHANGED <<attempted, executed, harnessVars>>

DemoNext ==
    \/ DemoConnect
    \/ DemoExecute
    \/ DemoFinish
    \/ DemoClose

\* simulate_climate_data_operations called, the driver may raise
InitDemo ==
    /\ InitCommon
    /\ plan = SmallPlan
    /\ dbFaulty = TRUE
    /\ rowsTracked = FALSE
    /\ table = <<>>
    /\ demoPc = "connect"
    /\ opIndex = 1
    /\ attempted = <<>>
    /\ executed = <<>>
    /\ raised = {}
    /\ opLog = <<>>

SpecDemo == InitDemo /\ [][DemoNext]_vars

----------------------------------------------------------------------------
(* Properties *)

AllJoined == joined = Len(threads)

\* the increments of counter c the workers performed, summed over the workers
SumOwn(c) ==
    own[InsertThread][c] + own[SelectThread1][c] + own[SelectThread2][c]
        + own[UpdateThread][c]

\* the batch of t obtained a live connection: get_connection() returned one
\* and connection.cursor() opened a cursor on it
Live(t) == cursor[t] # "none"

\* C1: after run_concurrent_tests has joined all worker threads, every counter
\* equals the sum over the workers of the increments each worker performed:
\* no increment is lost or duplicated under any interleaving.
C1_NoLostUpdate ==
    AllJoined => \A c \in Counters : results[c] = SumOwn(c)

\* C1 witness: all threads joined, both select workers and the update worker
\* recorded successes and the insert worker recorded an error.
C1_Witness ==
    /\ AllJoined
    /\ own[SelectThread1]["selects"] >= 1
    /\ own[SelectThread2]["selects"] >= 1
    /\ own[UpdateThread]["updates"] >= 1
    /\ own[InsertThread]["errors"] = 1

\* C2: for an insert batch of size n with a live connection, the inserts
\* counter never decreases, the batch raises it by at most n, and by exactly
\* n when no driver error occurred in any iteration.
C2_InsertBatch ==
    /\ [][results'["inserts"] >= results["inserts"]]_vars
    /\ [](\A t \in Threads :
            (Target(t) = "insert" /\ Live(t)) =>
                /\ own[t]["inserts"] <= plan[t]
                /\ results["inserts"] <= plan[t]
                /\ (Ended(t) /\ failedAt[t] = NoIter) =>
                        /\ own[t]["inserts"] = plan[t]
                        /\ results["inserts"] = plan[t])

\* C2 witness: the insert batch ended without an error after n >= 2 inserts.
C2_Witness ==
    /\ Ended(InsertThread)
    /\ Live(InsertThread)
    /\ failedAt[InsertThread] = NoIter
    /\ plan[InsertThread] >= 2
    /\ results["inserts"] = plan[InsertThread]

\* C3: the process exits with code 0 if the error counter is zero after all
\* worker threads have joined, and with code 1 otherwise.
C3_ExitCode ==
    mainPc = "exited" =>
        /\ exitCode \in {0, 1}
        /\ exitCode = 0 <=> (AllJoined /\ results["errors"] = 0)

\* C3 witness: a run that joined its workers and exited 1 on a counted error.
C3_Witness ==
    /\ mainPc = "exited"
    /\ AllJoined
    /\ results["errors"] >= 1
    /\ exitCode = 1

\* C4, as claimed: a run in which every connection attempt fails ends with a
\* non-zero error count and exit code 1.
C4_Original ==
    (mainPc = "exited" /\ connOk = 0) =>
        (results["errors"] > 0 /\ exitCode = 1)

\* C4, amended: a run in which every connection attempt fails ends at main's
\* connection test: no worker is started, no error is counted, the exit code
\* is 1. When the test connects and every worker's acquisition fails, no
\* error is counted either and the exit code is 0.
C4_Unreachable ==
    mainPc = "exited" =>
        /\ connOk = 0 =>
            (started = 0 /\ results = InitResults /\ exitCode = 1)
        /\ (connOk = 1 /\ AllJoined) =>
            (results = InitResults /\ exitCode = 0)

\* C4 witness: the run exited and no connection attempt had succeeded.
C4_Witness == mainPc = "exited" /\ connOk = 0 /\ exitCode = 1

\* C5: with the default load plan on a healthy database every run ends with
\* inserts=10, selects=15, updates=8, errors=0, a reported total of 33 and
\* exit code 0.
C5_DefaultRun ==
    mainPc = "exited" =>
        /\ results = [inserts |-> 10, selects |-> 15, updates |-> 8, errors |-> 0]
        /\ \A c \in Counters : report[c] = results[c]
        /\ report["total"] = 33
        /\ report["total"] = results["inserts"] + results["selects"] + results["updates"]
        /\ exitCode = 0

\* C5 witness: the default run exited, both select workers having counted.
C5_Witness ==
    /\ mainPc = "exited"
    /\ plan = DefaultPlan
    /\ own[SelectThread1]["selects"] = 8
    /\ own[SelectThread2]["selects"] = 7
    /\ report["total"] = 33

\* C6: a driver error in iteration k of a batch ends the batch's iterations,
\* raises errors by exactly one for that batch and leaves the batch's success
\* counter at the k iterations completed before; a sibling that meets no
\* error of its own still runs and records all its iterations.
C6_ErrorAbortsBatch ==
    \A t \in Threads :
        /\ failedAt[t] # NoIter =>
            /\ pc[t] \in {"acquire", "read", "write", "finally", "done", "dead"}
            /\ i[t] = failedAt[t]
            /\ own[t][SuccessCounter(t)] = failedAt[t]
            /\ own[t]["errors"] = IF pc[t] \in {"finally", "done", "dead"} THEN 1 ELSE 0
        /\ (failedAt[t] = NoIter /\ Live(t) /\ Ended(t)) =>
            /\ own[t][SuccessCounter(t)] = plan[t]
            /\ own[t]["errors"] = 0
        /\ AllJoined =>
            results["errors"] = Cardinality({s \in Threads : failedAt[s] # NoIter})

\* C6 witness: the insert batch failed in its second iteration, the first
\* select batch in its first, and the update batch completed all of its own.
C6_Witness ==
    /\ AllJoined
    /\ failedAt[InsertThread] = 1
    /\ own[InsertThread]["inserts"] = 1
    /\ failedAt[SelectThread1] = 0
    /\ results["errors"] = 2
    /\ failedAt[UpdateThread] = NoIter
    /\ own[UpdateThread]["updates"] = plan[UpdateThread]

\* C7: a batch to which the connection factory returns no connection returns
\* at once: it records no operation and no error.
C7_NoConnection ==
    /\ [](\A t \in Threads :
            (pc[t] \notin {"new", "connect"} /\ conn[t] = "none") =>
                (pc[t] = "done" /\ i[t] = 0 /\ own[t] = InitResults))
    /\ [][\A t \in Threads :
            (pc[t] = "connect" /\ pc'[t] # "connect" /\ conn'[t] = "none") =>
                (results' = results /\ Ended(t)')]_vars

\* C7 witness: a batch returned without a connection while siblings counted.
C7_Witness ==
    /\ conn[UpdateThread] = "none"
    /\ pc[UpdateThread] = "done"
    /\ AllJoined
    /\ results["inserts"] >= 1
    /\ results["updates"] = 0

\* C8, as claimed: every connection a batch acquired is closed once the batch
\* has ended, on every exit path.
C8_Released ==
    \A t \in Threads : Ended(t) => conn[t] # "open"

\* C9, as claimed: every row an UPDATE touches ends with a humidity within
\* [20, 95].
C9_Original ==
    \A r \in touched : r.after >= HumidityMin /\ r.after <= HumidityMax

\* C9, amended: every row an UPDATE touches ends with a humidity of at most
\* 95; it is at least 20 for the update by location, and for the other two
\* updates, which only raise the humidity, whenever the row was at 20 or
\* above before it, as every row the harness inserted is.
C9_HumidityRange ==
    /\ \A r \in touched :
        /\ r.after <= HumidityMax
        /\ r.type = "location_based" => r.after >= HumidityMin
        /\ r.type # "location_based" => r.after > r.before
        /\ r.before >= HumidityMin => r.after >= HumidityMin
    /\ \A k \in 1..Len(table) :
        table[k].location = "Edmonton" =>
            (table[k].humidity >= HumidityMin /\ table[k].humidity <= HumidityMax)

\* C9 witness: one UPDATE by temperature touched a seeded row and an inserted
\* row, both at 20 or above before it, and raised the seeded row to 95.
C9_Witness ==
    /\ Cardinality(touched) >= 2
    /\ \A r \in touched : r.type = "temperature_based" /\ r.before >= HumidityMin
    /\ \E r \in touched : r.after = HumidityMax

\* C10: run_concurrent_tests starts one thread per entry and reads, reports
\* and returns the counters only after every started thread has ended; no
\* counter changes after the summary has read it.
C10_ReadAfterJoin ==
    /\ mainPc \in {"join", "summary", "check"} => started = Len(threads)
    /\ mainPc \in {"summary", "check"} => \A t \in Threads : Ended(t)
    /\ (mainPc \in {"check", "return", "exited"} /\ started > 0) =>
        /\ started = Len(threads)
        /\ \A t \in Threads : Ended(t)
        /\ \A c \in Counters : report[c] = results[c]
        /\ report["total"] = Total(results)

\* C10 witness: the summary has been read after all four workers counted.
C10_Witness ==
    /\ mainPc = "check"
    /\ started = 4
    /\ report["inserts"] >= 1
    /\ report["selects"] >= 2
    /\ report["updates"] >= 1
    /\ report["errors"] >= 1

\* the workers inside a `with self.lock:` block
InCritical == {t \in Threads : pc[t] \in {"read", "write"}}

\* C11: at most one worker is inside a counter critical section, every counter
\* mutation happens while the lock is held, and the lock is held for one
\* increment only: never while a worker executes a statement, commits,
\* fetches or sleeps.
C11_LockDiscipline ==
    /\ [](/\ Cardinality(InCritical) <= 1
          /\ \A t \in Threads : (lock = t) <=> (t \in InCritical)
          /\ lock \in Threads \cup {Free})
    /\ [][results' # results =>
            /\ lock \in Threads
            /\ pc[lock] = "write"
            /\ lock' = Free
            /\ pc'[lock] \in {"execute", "finally"}
            /\ \E c \in Counters :
                results' = [results EXCEPT ![c] = @ + 1]]_vars

\* C11 witness: one select worker holds the lock in its increment while the
\* other waits for it, the insert worker commits and the update worker executes.
C11_Witness ==
    /\ lock = SelectThread1
    /\ pc[SelectThread1] = "write"
    /\ pc[SelectThread2] = "acquire"
    /\ pc[InsertThread] = "commit"
    /\ pc[UpdateThread] = "execute"

\* C12: under fair scheduling, with every driver call returning, every run
\* terminates: each batch completes its n iterations or aborts on its first
\* error, no worker is left waiting for the lock, every join returns and the
\* summary is produced.
C12_Terminates ==
    <>(/\ mainPc = "exited"
       /\ started > 0 =>
            /\ AllJoined
            /\ lock = Free
            /\ \A c \in Counters : report[c] = results[c]
            /\ \A t \in Threads :
                /\ Ended(t)
                /\ Live(t) =>
                    \/ (failedAt[t] = NoIter /\ i[t] = plan[t])
                    \/ (failedAt[t] = i[t] /\ i[t] < plan[t] /\ own[t]["errors"] = 1))

\* C12 witness: the run exited after its summary, one batch having completed
\* all iterations and another aborted on an error while a third had waited
\* for the lock.
C12_Witness ==
    /\ mainPc = "exited"
    /\ AllJoined
    /\ failedAt[UpdateThread] = NoIter /\ i[UpdateThread] = plan[UpdateThread]
    /\ failedAt[InsertThread] = 1
    /\ own[SelectThread1]["selects"] = plan[SelectThread1]

\* the queries of `operations`, in the order of the list
StatementOrder ==
    <<"count", "filtered_select", "grouped_aggregate", "insert", "update", "delete">>

\* the records of opLog about statement q
LogOf(q) == SelectSeq(opLog, LAMBDA r : r.stmt = q)

\* C13: simulate_climate_data_operations attempts count, filtered select,
\* grouped aggregate, insert, update, delete in this order, each exactly once
\* and never again; a driver error on a statement is logged as a failed
\* operation and the statements after it are still attempted.
C13_SixStatementsInOrder ==
    /\ attempted = SubSeq(StatementOrder, 1, Len(attempted))
    /\ Len(executed) <= Len(attempted)
    /\ \A j, k \in 1..Len(executed) : j < k => executed[j] # executed[k]
    /\ \A q \in raised :
        /\ \E k \in 1..Len(attempted) : attempted[k] = q
        /\ \E k \in 1..Len(opLog) : opLog[k].stmt = q /\ opLog[k].status = "failed"
    /\ demoPc = "done" =>
        /\ attempted = StatementOrder
        /\ \A k \in 1..Len(StatementOrder) :
            /\ LogOf(StatementOrder[k]) # <<>>
            /\ StatementOrder[k] \notin raised =>
                /\ LogOf(StatementOrder[k]) =
                    <<[stmt |-> StatementOrder[k], type |-> Operations[k].type,
                       status |-> "successful"]>>
                /\ \E j \in 1..Len(executed) : executed[j] = StatementOrder[k]

\* C13 witness: the run is over, the driver raised on the second and on the
\* fourth statement, and the fifth and sixth were still executed and logged
\* as successful.
C13_Witness ==
    /\ demoPc = "done"
    /\ raised = {"filtered_select", "insert"}
    /\ executed = <<"count", "grouped_aggregate", "insert", "update", "delete">>
    /\ Len(opLog) = 6
    /\ opLog[4].status = "failed"
    /\ opLog[6] = [stmt |-> "delete", type |-> "DELETE", status |-> "successful"]

\* the workers whose statements need a commit
Writers == {t \in Threads : Target(t) \in {"insert", "update"}}

\* C14: the inserts counter never exceeds the insert rows committed and the
\* updates counter never exceeds the update statements committed: a success
\* is counted only after the commit has returned, and a statement whose
\* execute succeeded and whose commit raised is counted as an error, never
\* as a success.
C14_CountedAfterCommit ==
    /\ [](/\ results["inserts"] <= committed[InsertThread]
          /\ results["updates"] <= committed[UpdateThread]
          /\ \A t \in Writers :
                /\ own[t][SuccessCounter(t)] <= committed[t]
                /\ committed[t] <= own[t][SuccessCounter(t)] + 1
                /\ commitFailed[t] =>
                    /\ failedAt[t] = committed[t]
                    /\ own[t][SuccessCounter(t)] = committed[t]
                    /\ Ended(t) => own[t]["errors"] = 1)
    /\ [][\A t \in Writers :
            (pc[t] = "commit" /\ commitFailed'[t]) =>
                /\ results' = results
                /\ committed' = committed
                /\ failed'[t]
                /\ pc'[t] = "acquire"]_vars

\* C14 witness: the second INSERT was executed and its commit raised; the
\* batch ended with one insert and one error counted, one row committed.
C14_Witness ==
    /\ commitFailed[InsertThread]
    /\ Ended(InsertThread)
    /\ failedAt[InsertThread] = 1
    /\ committed[InsertThread] = 1
    /\ results["inserts"] = 1
    /\ own[InsertThread]["errors"] = 1

====
